---- MODULE Spec2Model ----
(***************************************************************************)
(* Formation planner: the formation screen of src/app/formation.tsx as a   *)
(* state machine.  The registry is the `players` hook state; every         *)
(* DraggablePlayer instance is modelled with the props its PanResponder    *)
(* closed over when the instance was mounted (the responder is created     *)
(* once, inside useRef) and with its Animated.ValueXY `pan`.               *)
(* Coordinates are integers (pixels).                                      *)
(***************************************************************************)
EXTENDS Integers, Sequences, FiniteSets, TLC

VARIABLES players, fieldDimensions, comp, drag, alert, load, storage, gestures,
          setup, route

vars == <<players, fieldDimensions, comp, drag, alert, load, storage, gestures,
          setup, route>>

(* players .. gestures are the state of FormationScreen (formation.tsx),    *)
(* setup is the state of TeamSetupScreen (team-setup.tsx) and route is the  *)
(* screen the router shows: "team-setup", "formation", or "error" after a   *)
(* render has thrown.                                                       *)

(* TeamSetupScreen when it is not part of the run *)
SetupClosed ==
  [open |-> FALSE, numberOfPlayers |-> <<"1", "1">>, players |-> <<>>,
   newPlayerName |-> <<>>, isLoading |-> TRUE, alert |-> "none",
   stored |-> [present |-> FALSE, failing |-> FALSE, players |-> <<>>, numberOfPlayers |-> <<>>],
   read |-> [present |-> FALSE, failing |-> FALSE, players |-> <<>>, numberOfPlayers |-> <<>>],
   now |-> 1, steps |-> 0]

(* A handler of FormationScreen runs while that screen is shown and leaves  *)
(* TeamSetupScreen alone.                                                   *)
OnFormationScreen == route = "formation" /\ UNCHANGED <<setup, route>>

----------------------------------------------------------------------------
(* Bounds and program constants *)

(* The number of gestures the user starts in a session: drags, taps on a     *)
(* substitute and presses of a control button.                              *)
MaxGestures == 2

(* The largest number of on-field players auto-arrange is studied with *)
MaxSquad == 30

PLAYER_SIZE == 60

(* The squads handed over by the setup screen, as the isAvailable flags of   *)
(* their players in list order.                                             *)
Squads == {<<TRUE, TRUE, TRUE>>, <<TRUE, TRUE, FALSE>>}

(* Ids are opaque; the players of a squad are named 1, 2, 3 in list order.   *)
Ids == DOMAIN players

(* The sizes the pitch view is laid out with (multiples of 20, so that the  *)
(* fractions of the positional table are whole pixels).                     *)
Pitches == {[width |-> 300, height |-> 600], [width |-> 400, height |-> 800]}

(* The sizes auto-arrange is studied with: a pitch smaller than a player,   *)
(* one of exactly a player's size, and two full-size ones; on 420 x 840     *)
(* every fraction of the table and of the even distribution is a whole      *)
(* pixel.                                                                   *)
LayoutPitches ==
  {[width |-> 40, height |-> 40], [width |-> 60, height |-> 60],
   [width |-> 400, height |-> 800], [width |-> 420, height |-> 840]}

Unmeasured == [width |-> 0, height |-> 0]

(* Gesture displacements (gestureState.dx, gestureState.dy): on a field      *)
(* player a pull past the top left corner and one past the bottom right;     *)
(* on a substitute a pull up, one into the pitch and one past its right.     *)
FieldGestures == {<<-1000, -1000>>, <<1000, 700>>}
SubGestures == {<<0, -100>>, <<50, 50>>, <<1000, 700>>}
Gestures(isSubstitute) == IF isSubstitute THEN SubGestures ELSE FieldGestures

(* Math.random() yields a value in [0, 1); the model draws the two ends:    *)
(* 0 for a draw of 0 and 1 for a draw just below 1.  The two draws of a     *)
(* coordinate pair are taken at the same end.                               *)
DrawPairs == {<<0, 0>>, <<1, 1>>}

(* Math.random() * range, on the pixel grid. *)
RandomTimes(u, range) ==
  IF u = 0 \/ range = 0 THEN 0
  ELSE IF range > 0 THEN range - 1 ELSE range + 1

Max(a, b) == IF a >= b THEN a ELSE b
Min(a, b) == IF a <= b THEN a ELSE b

(* A coordinate taken as computed, without the clamp *)
Unconstrained(v, limit) == v

(* Math.max(0, Math.min(limit - PLAYER_SIZE, v)) *)
Constrain(v, limit) == Max(0, Min(limit - PLAYER_SIZE, v))

----------------------------------------------------------------------------
(* Storage: the value under FORMATION_STORAGE_KEY *)

NoSaved == [present |-> FALSE, failing |-> FALSE, positions |-> <<>>]

(* What an earlier session can have left behind: nothing, or the snapshot   *)
(* saved after an auto-arrange on a 300 x 600 pitch by a session whose      *)
(* squad was player 1 (on the bench), player 3 (available then, on the      *)
(* field) and a player 9 that has since been removed; player 2 had not      *)
(* joined yet.                                                              *)
SavedFormations ==
  { NoSaved,
    [present |-> TRUE, failing |-> FALSE,
     positions |-> << [id |-> 1, x |-> 0, y |-> 0, isOnField |-> FALSE],
                      [id |-> 3, x |-> 120, y |-> 30, isOnField |-> TRUE],
                      [id |-> 9, x |-> 45, y |-> 90, isOnField |-> TRUE] >>] }

(* A snapshot that records every player as on the field *)
positionsAllOnField(ps) ==
  [i \in 1..Len(ps) |->
     [id |-> ps[i].id, x |-> ps[i].x, y |-> ps[i].y, isOnField |-> TRUE]]

(* positionsToSave of saveFormationPositions *)
positionsToSave(ps) ==
  [i \in 1..Len(ps) |->
     [id |-> ps[i].id, x |-> ps[i].x, y |-> ps[i].y, isOnField |-> ps[i].isOnField]]

(* The effect on [players, fieldDimensions]: it writes the snapshot when    *)
(* the pitch width is known; the write fails when the storage is failing.   *)
saveFormationPositions(ps, dims, st) ==
  IF dims.width > 0 /\ ~st.failing
    THEN [present |-> TRUE, failing |-> FALSE, positions |-> positionsToSave(ps)]
    ELSE st

----------------------------------------------------------------------------
(* Derived views of the registry *)

IsFieldPlayer(p) == p.isOnField /\ p.isAvailable
IsSubstitute(p) == ~p.isOnField /\ p.isAvailable

(* A filter that forgets the availability flag *)
fieldPlayersAnyAvailability(ps) == SelectSeq(ps, LAMBDA p : p.isOnField)

(* players.filter(p => p.isOnField && p.isAvailable) *)
fieldPlayers(ps) == SelectSeq(ps, IsFieldPlayer)
substitutePlayers(ps) == SelectSeq(ps, IsSubstitute)

Measured(dims) == dims.width > 0 /\ dims.height > 0

----------------------------------------------------------------------------
(* DraggablePlayer instances *)

Unmounted ==
  [mounted |-> FALSE, isSubstitute |-> FALSE, playerX |-> 0, playerY |-> 0,
   fieldWidth |-> 0, fieldHeight |-> 0, panX |-> 0, panY |-> 0]

NoDrag == [id |-> 0, offX |-> 0, offY |-> 0]

(* Is player p rendered, and as what *)
RenderedOnField(p, dims) == Measured(dims) /\ IsFieldPlayer(p)
RenderedOnBench(p) == IsSubstitute(p)

(* The instance of key p.id survives a render when it stays in the same list *)
Kept(c, p, dims) ==
  /\ c.mounted
  /\ \/ c.isSubstitute /\ RenderedOnBench(p)
     \/ ~c.isSubstitute /\ RenderedOnField(p, dims)

(* One render of player p: old is the record of the previous render, c the   *)
(* instance after the handler ran.                                           *)
RenderOne(c, old, p, dims) ==
  IF ~(RenderedOnField(p, dims) \/ RenderedOnBench(p)) THEN Unmounted
  ELSE IF Kept(c, p, dims)
    THEN IF p.x # old.x \/ p.y # old.y
           THEN [c EXCEPT !.panX = p.x, !.panY = p.y]
           ELSE c
    ELSE [mounted |-> TRUE, isSubstitute |-> RenderedOnBench(p),
          playerX |-> p.x, playerY |-> p.y,
          fieldWidth |-> dims.width, fieldHeight |-> dims.height,
          panX |-> p.x, panY |-> p.y]

Render(cs, olds, ps, dims) ==
  [i \in DOMAIN ps |-> RenderOne(cs[i], olds[i], ps[i], dims)]

(* A gesture ends with the instance it started on *)
DragAfter(d, cs, ps, dims) ==
  IF d.id # 0 /\ Kept(cs[d.id], ps[d.id], dims) THEN d ELSE NoDrag

NoAlert == [kind |-> "none", substituteId |-> 0, options |-> <<>>,
            players |-> <<>>, dims |-> Unmeasured]

(* setPlayers / setFieldDimensions followed by the render and the effects:  *)
(* cs and d are the instances and the gesture as the handler left them.     *)
Commit(ps, dims, cs, d) ==
  /\ players' = ps
  /\ fieldDimensions' = dims
  /\ comp' = Render(cs, players, ps, dims)
  /\ drag' = DragAfter(d, cs, ps, dims)
  /\ storage' = saveFormationPositions(ps, dims, storage)

Idle == drag.id = 0 /\ alert.kind = "none"

(* The user starts one more gesture *)
StartGesture == Idle /\ gestures < MaxGestures /\ gestures' = gestures + 1

----------------------------------------------------------------------------
(* Initial state: FormationScreen's first render *)

(* A first render that puts every player on the field *)
allPlayersOnField(avail, u) ==
  [i \in DOMAIN avail |->
     [id |-> i, name |-> i, isAvailable |-> avail[i], isOnField |-> TRUE,
      x |-> RandomTimes(u[i][1], 200) + 50, y |-> RandomTimes(u[i][2], 200) + 50]]

allPlayers(avail, u) ==
  [i \in DOMAIN avail |->
     [id |-> i, name |-> i, isAvailable |-> avail[i], isOnField |-> avail[i],
      x |-> RandomTimes(u[i][1], 200) + 50, y |-> RandomTimes(u[i][2], 200) + 50]]

(* The start positions of players 2 and 3 are drawn at the same end. *)
Init ==
  /\ route = "formation"
  /\ setup = SetupClosed
  /\ \E avail \in Squads : \E u \in {v \in [DOMAIN avail -> DrawPairs] : v[2] = v[3]} :
       players = allPlayers(avail, u)
  /\ fieldDimensions = Unmeasured
  /\ comp = [i \in Ids |-> Unmounted]
  /\ drag = NoDrag
  /\ alert = NoAlert
  /\ storage \in SavedFormations
  /\ load = [pending |-> TRUE, value |-> storage]
  /\ gestures = 0

----------------------------------------------------------------------------
(* onLayout of the pitch view *)

setFieldDimensions(dims) ==
  /\ OnFormationScreen
  /\ dims # fieldDimensions
  /\ Commit(players, dims, comp, drag)
  /\ UNCHANGED <<alert, load, gestures>>

onLayout == \E dims \in Pitches : setFieldDimensions(dims)

(* A merge that takes the coordinates of a saved entry but not its flag *)
MergeSavedCoordinates(ps, positions) ==
  [i \in 1..Len(ps) |->
     LET matches == SelectSeq(positions, LAMBDA s : s.id = ps[i].id)
     IN IF Len(matches) > 0
          THEN [ps[i] EXCEPT !.x = matches[1].x, !.y = matches[1].y]
          ELSE ps[i]]

(* loadFormationPositions: the continuation after AsyncStorage.getItem *)
MergeSaved(ps, positions) ==
  [i \in 1..Len(ps) |->
     LET matches == SelectSeq(positions, LAMBDA s : s.id = ps[i].id)
     IN IF Len(matches) > 0
          THEN [ps[i] EXCEPT !.x = matches[1].x, !.y = matches[1].y,
                             !.isOnField = matches[1].isOnField]
          ELSE ps[i]]

loadFormationPositions ==
  /\ OnFormationScreen
  /\ load.pending
  /\ load' = [pending |-> FALSE, value |-> NoSaved]
  /\ IF load.value.present /\ ~load.value.failing
       THEN Commit(MergeSaved(players, load.value.positions), fieldDimensions, comp, drag)
       ELSE UNCHANGED <<players, fieldDimensions, comp, drag, storage>>
  /\ UNCHANGED <<alert, gestures>>

----------------------------------------------------------------------------
(* The registry updates of FormationScreen *)

(* handlePositionChange that moves every player, whatever the id *)
handlePositionChangeAll(ps, id, x, y) ==
  [i \in 1..Len(ps) |-> [ps[i] EXCEPT !.x = x, !.y = y]]

handlePositionChange(ps, id, x, y) ==
  [i \in 1..Len(ps) |-> IF ps[i].id = id THEN [ps[i] EXCEPT !.x = x, !.y = y] ELSE ps[i]]

(* handleDragToSubBench that also marks the player unavailable *)
handleDragToSubBenchUnavailable(ps, playerId) ==
  [i \in 1..Len(ps) |->
     IF ps[i].id = playerId
       THEN [ps[i] EXCEPT !.isOnField = FALSE, !.isAvailable = FALSE, !.x = 0, !.y = 0]
       ELSE ps[i]]

handleDragToSubBench(ps, playerId) ==
  [i \in 1..Len(ps) |->
     IF ps[i].id = playerId
       THEN [ps[i] EXCEPT !.isOnField = FALSE, !.x = 0, !.y = 0]
       ELSE ps[i]]

handleDragToField(ps, playerId, x, y) ==
  [i \in 1..Len(ps) |->
     IF ps[i].id = playerId
       THEN [ps[i] EXCEPT !.isOnField = TRUE, !.x = x, !.y = y]
       ELSE ps[i]]

(* The onPress of one option of the swap dialog: fieldPlayer is the record   *)
(* the dialog closed over when it was opened.                                *)
swapOnPress(ps, substituteId, fieldPlayer) ==
  [i \in 1..Len(ps) |->
     IF ps[i].id = substituteId
       THEN [ps[i] EXCEPT !.isOnField = TRUE, !.x = fieldPlayer.x, !.y = fieldPlayer.y]
     ELSE IF ps[i].id = fieldPlayer.id
       THEN [ps[i] EXCEPT !.isOnField = FALSE, !.x = 0, !.y = 0]
     ELSE ps[i]]

(* Math.random() * (dimension - PLAYER_SIZE) + 10 *)
randomX(u, dims) == RandomTimes(u[1], dims.width - PLAYER_SIZE) + 10
randomY(u, dims) == RandomTimes(u[2], dims.height - PLAYER_SIZE) + 10

----------------------------------------------------------------------------
(* Gestures on a DraggablePlayer *)

onPanResponderGrant(i) ==
  /\ OnFormationScreen
  /\ StartGesture
  /\ comp[i].mounted
  /\ drag' = [id |-> i, offX |-> comp[i].panX, offY |-> comp[i].panY]
  /\ comp' = [comp EXCEPT ![i].panX = 0, ![i].panY = 0]
  /\ UNCHANGED <<players, fieldDimensions, alert, load, storage>>

(* A move that commits the position it passes through *)
onPanResponderMoveCommitting(i) ==
  /\ OnFormationScreen
  /\ drag.id = i
  /\ UNCHANGED <<alert, load, gestures>>
  /\ \E g \in Gestures(comp[i].isSubstitute) :
       Commit(handlePositionChange(players, i, drag.offX + g[1], drag.offY + g[2]),
              fieldDimensions, [comp EXCEPT ![i].panX = g[1], ![i].panY = g[2]], drag)

onPanResponderMove(i) ==
  /\ OnFormationScreen
  /\ drag.id = i
  /\ \E g \in Gestures(comp[i].isSubstitute) : comp' = [comp EXCEPT ![i].panX = g[1], ![i].panY = g[2]]
  /\ UNCHANGED <<players, fieldDimensions, drag, alert, load, storage, gestures>>

(* pan.flattenOffset(): the value takes the offset in *)
currentX(i) == drag.offX + comp[i].panX
currentY(i) == drag.offY + comp[i].panY

isInField(i) ==
  /\ currentY(i) < comp[i].fieldHeight
  /\ currentX(i) >= 0
  /\ currentX(i) <= comp[i].fieldWidth

isInSubBench(i) == currentY(i) > comp[i].fieldHeight - 20

constrainedX(i) == Constrain(currentX(i), comp[i].fieldWidth)
constrainedY(i) == Constrain(currentY(i), comp[i].fieldHeight)

Flattened(i, x, y) == [comp EXCEPT ![i].panX = x, ![i].panY = y]

onPanResponderRelease(i) ==
  /\ OnFormationScreen
  /\ drag.id = i
  /\ UNCHANGED <<alert, load, gestures>>
  /\ IF comp[i].isSubstitute
       THEN IF isInField(i)
              THEN Commit(handleDragToField(players, i, constrainedX(i), constrainedY(i)),
                          fieldDimensions, Flattened(i, currentX(i), currentY(i)), NoDrag)
              ELSE /\ comp' = Flattened(i, comp[i].playerX, comp[i].playerY)
                   /\ drag' = NoDrag
                   /\ UNCHANGED <<players, fieldDimensions, storage>>
       ELSE IF isInSubBench(i)
              THEN Commit(handleDragToSubBench(players, i),
                          fieldDimensions, Flattened(i, currentX(i), currentY(i)), NoDrag)
              ELSE Commit(handlePositionChange(players, i, constrainedX(i), constrainedY(i)),
                          fieldDimensions, Flattened(i, constrainedX(i), constrainedY(i)), NoDrag)

onPanResponderTerminate(i) ==
  /\ OnFormationScreen
  /\ drag.id = i
  /\ comp' = Flattened(i, comp[i].playerX, comp[i].playerY)
  /\ drag' = NoDrag
  /\ UNCHANGED <<players, fieldDimensions, alert, load, storage, gestures>>

----------------------------------------------------------------------------
(* Tap on a substitute: handlePlayerSwap *)

(* A tap that swaps at once when a single field player exists *)
handlePlayerSwapImplicit(i) ==
  /\ OnFormationScreen
  /\ StartGesture
  /\ comp[i].mounted /\ comp[i].isSubstitute
  /\ UNCHANGED load
  /\ IF Len(fieldPlayers(players)) = 0
       THEN /\ \E u \in DrawPairs :
                 Commit(handleDragToField(players, i, randomX(u, fieldDimensions),
                                          randomY(u, fieldDimensions)),
                        fieldDimensions, comp, drag)
            /\ UNCHANGED alert
       ELSE IF Len(fieldPlayers(players)) = 1
         THEN /\ Commit(swapOnPress(players, i, fieldPlayers(players)[1]),
                        fieldDimensions, comp, drag)
              /\ UNCHANGED alert
         ELSE /\ alert' = [NoAlert EXCEPT !.kind = "swap", !.substituteId = i,
                                          !.options = fieldPlayers(players),
                                          !.players = players]
              /\ UNCHANGED <<players, fieldDimensions, comp, drag, storage>>

handlePlayerSwap(i) ==
  /\ OnFormationScreen
  /\ StartGesture
  /\ comp[i].mounted /\ comp[i].isSubstitute
  /\ UNCHANGED load
  /\ IF Len(fieldPlayers(players)) = 0
       THEN /\ \E u \in DrawPairs :
                 Commit(handleDragToField(players, i, randomX(u, fieldDimensions),
                                          randomY(u, fieldDimensions)),
                        fieldDimensions, comp, drag)
            /\ UNCHANGED alert
       ELSE /\ alert' = [NoAlert EXCEPT !.kind = "swap", !.substituteId = i,
                                        !.options = fieldPlayers(players),
                                        !.players = players]
            /\ UNCHANGED <<players, fieldDimensions, comp, drag, storage>>

swapChoose(k) ==
  /\ OnFormationScreen
  /\ alert.kind = "swap"
  /\ k \in 1..Len(alert.options)
  /\ Commit(swapOnPress(players, alert.substituteId, alert.options[k]),
            fieldDimensions, comp, drag)
  /\ alert' = NoAlert
  /\ UNCHANGED <<load, gestures>>

(* Cancel of a dialog, OK of a notice *)
alertDismiss ==
  /\ OnFormationScreen
  /\ alert.kind # "none"
  /\ alert' = NoAlert
  /\ UNCHANGED <<players, fieldDimensions, comp, drag, load, storage, gestures>>

----------------------------------------------------------------------------
(* Reset *)

resetPositions ==
  /\ OnFormationScreen
  /\ StartGesture
  /\ alert' = [NoAlert EXCEPT !.kind = "reset", !.players = players,
                              !.dims = fieldDimensions]
  /\ UNCHANGED <<players, fieldDimensions, comp, drag, load, storage>>

resetPlayers(ps, dims, u) ==
  [i \in 1..Len(ps) |->
     [ps[i] EXCEPT !.x = IF ps[i].isOnField THEN randomX(u[i], dims) ELSE 0,
                   !.y = IF ps[i].isOnField THEN randomY(u[i], dims) ELSE 0]]

resetOnPress ==
  /\ OnFormationScreen
  /\ alert.kind = "reset"
  /\ \E u \in [Ids -> DrawPairs] :
       Commit(resetPlayers(alert.players, alert.dims, u), fieldDimensions, comp, drag)
  /\ alert' = NoAlert
  /\ UNCHANGED <<load, gestures>>

----------------------------------------------------------------------------
(* Auto-arrange: arrangeInGAAFormation *)

(* A player's place in the whole registry, 0-based *)
registryIndex(list, id) == id - 1

(* fieldPlayersList.findIndex(p => p.id === player.id), 0-based *)
findIndex(list, id) ==
  IF \E k \in 1..Len(list) : list[k].id = id
    THEN (CHOOSE k \in 1..Len(list) :
            list[k].id = id /\ \A j \in 1..(k - 1) : list[j].id # id) - 1
    ELSE -1

(* The positional table, as twentieths of the width and of the height *)
slotFx(index) ==
  CASE index \in {0, 2, 5, 10, 13} -> 10
    [] index \in {1, 4, 9, 12} -> 5
    [] index \in {3, 6, 11, 14} -> 15
    [] index = 7 -> 8
    [] index = 8 -> 12
    [] OTHER -> 10

slotFy(index) ==
  CASE index = 0 -> 1
    [] index \in {1, 2, 3} -> 3
    [] index \in {4, 5, 6} -> 7
    [] index \in {7, 8} -> 10
    [] index \in {9, 10, 11} -> 13
    [] index \in {12, 13, 14} -> 17
    [] OTHER -> 14

(* Math.floor(Math.sqrt(n)) *)
FloorSqrt(n) == CHOOSE c \in 0..n : c * c <= n /\ (c + 1) * (c + 1) > n

(* Math.ceil(Math.sqrt(n)) and Math.ceil(n / d) *)
CeilSqrt(n) == CHOOSE c \in 0..n : c * c >= n /\ (c = 0 \/ (c - 1) * (c - 1) < n)
(* Math.floor(n / d) *)
FloorDiv(n, d) == n \div d

CeilDiv(n, d) == (n + d - 1) \div d

(* x and y before the final clamp; the even distribution is rounded down to *)
(* the pixel grid.                                                          *)
arrangeX(index, playersCount, width) ==
  IF playersCount <= 15
    THEN (width * slotFx(index)) \div 20 - PLAYER_SIZE \div 2
    ELSE LET cols == CeilSqrt(playersCount)
             col == index % cols
         IN (width * (col + 1)) \div (cols + 1) - PLAYER_SIZE \div 2

arrangeY(index, playersCount, height) ==
  IF playersCount <= 15
    THEN IF index \in 0..14
           THEN (height * slotFy(index)) \div 20
           ELSE (height * 14) \div 20 + (index - 15) * 40
    ELSE LET cols == CeilSqrt(playersCount)
             rows == CeilDiv(playersCount, cols)
             row == index \div cols
         IN (height * (row + 1)) \div (rows + 1) - PLAYER_SIZE \div 2

(* An arrangement of every on-field player, available or not, that clears   *)
(* the coordinates of the others.                                           *)
arrangedAll(ps, dims) ==
  LET onField == SelectSeq(ps, LAMBDA p : p.isOnField)
  IN [i \in 1..Len(ps) |->
        IF ~ps[i].isOnField THEN [ps[i] EXCEPT !.x = 0, !.y = 0]
        ELSE LET index == findIndex(onField, ps[i].id)
             IN [ps[i] EXCEPT
                   !.x = Constrain(arrangeX(index, Len(onField), dims.width), dims.width),
                   !.y = Constrain(arrangeY(index, Len(onField), dims.height), dims.height)]]

(* An arrangement that moves each field player by its slot's offset from    *)
(* where the player stands.                                                 *)
arrangedRelative(ps, dims) ==
  LET fieldPlayersList == fieldPlayers(ps)
      playersCount == Len(fieldPlayersList)
  IN [i \in 1..Len(ps) |->
        IF ~ps[i].isOnField \/ ~ps[i].isAvailable THEN ps[i]
        ELSE LET index == findIndex(fieldPlayersList, ps[i].id)
             IN [ps[i] EXCEPT
                   !.x = Constrain(ps[i].x + arrangeX(index, playersCount, dims.width), dims.width),
                   !.y = Constrain(ps[i].y + arrangeY(index, playersCount, dims.height), dims.height)]]

arrangedPlayers(ps, dims) ==
  LET fieldPlayersList == fieldPlayers(ps)
      playersCount == Len(fieldPlayersList)
  IN [i \in 1..Len(ps) |->
        IF ~ps[i].isOnField \/ ~ps[i].isAvailable THEN ps[i]
        ELSE LET index == findIndex(fieldPlayersList, ps[i].id)
             IN [ps[i] EXCEPT
                   !.x = Constrain(arrangeX(index, playersCount, dims.width), dims.width),
                   !.y = Constrain(arrangeY(index, playersCount, dims.height), dims.height)]]

(* An auto-arrange that returns without a word when nobody is on the field  *)
arrangeSilently ==
  /\ OnFormationScreen
  /\ StartGesture
  /\ UNCHANGED load
  /\ IF Len(fieldPlayers(players)) = 0
       THEN UNCHANGED <<players, fieldDimensions, comp, drag, storage, alert>>
       ELSE /\ Commit(arrangedPlayers(players, fieldDimensions), fieldDimensions, comp, drag)
            /\ UNCHANGED alert

arrangeInGAAFormation ==
  /\ OnFormationScreen
  /\ StartGesture
  /\ UNCHANGED load
  /\ IF Len(fieldPlayers(players)) = 0
       THEN /\ alert' = [NoAlert EXCEPT !.kind = "notice"]
            /\ UNCHANGED <<players, fieldDimensions, comp, drag, storage>>
       ELSE /\ Commit(arrangedPlayers(players, fieldDimensions), fieldDimensions, comp, drag)
            /\ UNCHANGED alert

----------------------------------------------------------------------------
DragGrant == \E i \in Ids : onPanResponderGrant(i)
DragMove == \E i \in Ids : onPanResponderMove(i)
DragRelease == \E i \in Ids : onPanResponderRelease(i)
DragTerminate == \E i \in Ids : onPanResponderTerminate(i)
TapSubstitute == \E i \in Ids : handlePlayerSwap(i)
SwapChoice == \E k \in DOMAIN alert.options : swapChoose(k)

Next ==
  \/ onLayout
  \/ loadFormationPositions
  \/ DragGrant
  \/ DragMove
  \/ DragRelease
  \/ DragTerminate
  \/ TapSubstitute
  \/ SwapChoice
  \/ alertDismiss
  \/ resetPositions
  \/ resetOnPress
  \/ arrangeInGAAFormation

Spec == Init /\ [][Next]_vars

----------------------------------------------------------------------------
(* Sessions: the screen is left, between two gestures, and opened again     *)
(* with the same squad.  The new FormationScreen draws fresh coordinates,   *)
(* has no pitch size yet and issues its getItem against what the last       *)
(* session left in storage.                                                 *)

reopen ==
  /\ OnFormationScreen
  /\ Idle
  /\ \E d \in DrawPairs :
       players' = allPlayers([i \in Ids |-> players[i].isAvailable], [i \in Ids |-> d])
  /\ fieldDimensions' = Unmeasured
  /\ comp' = [i \in Ids |-> Unmounted]
  /\ drag' = NoDrag
  /\ alert' = NoAlert
  /\ load' = [pending |-> TRUE, value |-> storage]
  /\ UNCHANGED <<storage, gestures>>

(* The first session starts like any other, its players drawn at the same   *)
(* end of the random range; the sessions are made of layouts, the load,     *)
(* drags and auto-arrange.                                                  *)
SessionInit ==
  /\ route = "formation"
  /\ setup = SetupClosed
  /\ \E avail \in Squads : \E d \in DrawPairs :
       players = allPlayers(avail, [i \in DOMAIN avail |-> d])
  /\ fieldDimensions = Unmeasured
  /\ comp = [i \in Ids |-> Unmounted]
  /\ drag = NoDrag
  /\ alert = NoAlert
  /\ storage \in SavedFormations
  /\ load = [pending |-> TRUE, value |-> storage]
  /\ gestures = 0

SessionNext ==
  \/ onLayout
  \/ loadFormationPositions
  \/ DragGrant
  \/ DragMove
  \/ DragRelease
  \/ arrangeInGAAFormation
  \/ reopen

SessionSpec == SessionInit /\ [][SessionNext]_vars

----------------------------------------------------------------------------
(* Auto-arrange on its own: squads of one unavailable player followed by    *)
(* 1..MaxSquad available ones, all created at the same end of the random    *)
(* range, nothing saved, on the pitches of LayoutPitches.                   *)

ArrangeSquads == {[i \in 1..(n + 1) |-> i # 1] : n \in 1..MaxSquad}

ArrangeInit ==
  /\ route = "formation"
  /\ setup = SetupClosed
  /\ \E avail \in ArrangeSquads : \E d \in DrawPairs :
       players = allPlayers(avail, [i \in DOMAIN avail |-> d])
  /\ fieldDimensions = Unmeasured
  /\ comp = [i \in Ids |-> Unmounted]
  /\ drag = NoDrag
  /\ alert = NoAlert
  /\ storage = NoSaved
  /\ load = [pending |-> TRUE, value |-> storage]
  /\ gestures = 0

onLayoutAny == \E dims \in LayoutPitches : setFieldDimensions(dims)

ArrangeNext ==
  \/ onLayoutAny
  \/ loadFormationPositions
  \/ arrangeInGAAFormation

ArrangeSpec == ArrangeInit /\ [][ArrangeNext]_vars

----------------------------------------------------------------------------
(* TeamSetupScreen (team-setup.tsx).  Texts are sequences of characters.    *)

(* The user operations of one visit of the setup screen, the squad the      *)
(* model lets it grow to, and the last reading of the clock.                *)
MaxSetupSteps == 4
MaxRoster == 3
MaxClock == 2

Digits == <<"0", "1", "2", "3", "4", "5", "6", "7", "8", "9">>
IsDigit(c) == \E d \in 1..10 : Digits[d] = c
DigitValue(c) == (CHOOSE d \in 1..10 : Digits[d] = c) - 1

RECURSIVE SkipBlanks(_)
SkipBlanks(text) ==
  IF text # <<>> /\ Head(text) = " " THEN SkipBlanks(Tail(text)) ELSE text

RECURSIVE DropTrailingBlanks(_)
DropTrailingBlanks(text) ==
  IF text # <<>> /\ text[Len(text)] = " "
    THEN DropTrailingBlanks(SubSeq(text, 1, Len(text) - 1))
    ELSE text

(* String.prototype.trim *)
Trim(text) == DropTrailingBlanks(SkipBlanks(text))

(* The number of digits a text starts with *)
RECURSIVE LeadingDigits(_)
LeadingDigits(text) ==
  IF text # <<>> /\ IsDigit(Head(text)) THEN 1 + LeadingDigits(Tail(text)) ELSE 0

RECURSIVE DecimalValue(_)
DecimalValue(ds) ==
  IF ds = <<>> THEN 0
  ELSE 10 * DecimalValue(SubSeq(ds, 1, Len(ds) - 1)) + DigitValue(ds[Len(ds)])

(* parseInt(text): blanks are skipped, a sign is taken, then the longest    *)
(* run of decimal digits; NaN when there is no digit.  (The texts of the    *)
(* model carry no 0x prefix.)                                               *)
parseInt(text) ==
  LET t == SkipBlanks(text)
      signed == t # <<>> /\ Head(t) \in {"-", "+"}
      body == IF signed THEN Tail(t) ELSE t
      n == LeadingDigits(body)
      magnitude == DecimalValue(SubSeq(body, 1, n))
  IN IF n = 0 THEN [nan |-> TRUE, value |-> 0]
     ELSE [nan |-> FALSE,
           value |-> IF signed /\ Head(t) = "-" THEN 0 - magnitude ELSE magnitude]

(* v || 0 on a number: NaN and 0 give 0 *)
OrZero(r) == IF r.nan THEN 0 ELSE r.value

(* a < v on numbers: false when v is NaN *)
LessThan(a, r) == ~r.nan /\ a < r.value

(* Number.prototype.toString *)
RECURSIVE toString(_)
toString(n) ==
  IF n < 0 THEN <<"-">> \o toString(0 - n)
  ELSE IF n < 10 THEN <<Digits[n + 1]>>
  ELSE toString(n \div 10) \o <<Digits[(n % 10) + 1]>>

(* What the user can leave in the squad size field (maxLength 2) and in the *)
(* name field.                                                              *)
SizeTexts ==
  { <<>>, <<"0">>, <<"1">>, <<"2">>, <<"3", "0">>, <<"3", "1">>, <<"2", "x">>,
    <<"-", "1">>, <<"x">> }
NameTexts == { <<" ">>, <<" ", "A", " ">> }

(* The value under STORAGE_KEY *)
NoSquad == [present |-> FALSE, failing |-> FALSE, players |-> <<>>, numberOfPlayers |-> <<>>]

(* What an earlier visit can have left behind: nothing, or a squad of one   *)
(* player added at clock reading 0 with the size set to 2.                  *)
StoredSquads ==
  { NoSquad,
    [present |-> TRUE, failing |-> FALSE,
     players |-> << [id |-> <<"t", 0>>, name |-> <<"Z">>, isAvailable |-> FALSE] >>,
     numberOfPlayers |-> <<"2">>] }

(* savePlayers: the write fails when the storage is failing *)
savePlayers(ps, size, st) ==
  IF st.failing THEN st
  ELSE [present |-> TRUE, failing |-> FALSE, players |-> ps, numberOfPlayers |-> size]

SetupInit ==
  /\ route = "team-setup"
  /\ \E st \in StoredSquads : \E f \in BOOLEAN :
       setup = [open |-> TRUE,
                numberOfPlayers |-> <<"1", "1">>,
                players |-> <<>>,
                newPlayerName |-> <<>>,
                isLoading |-> TRUE,
                alert |-> "none",
                stored |-> [st EXCEPT !.failing = f],
                read |-> [st EXCEPT !.failing = f],
                now |-> 1,
                steps |-> 0]
  /\ players = <<>>
  /\ fieldDimensions = Unmeasured
  /\ comp = <<>>
  /\ drag = NoDrag
  /\ alert = NoAlert
  /\ storage = NoSaved
  /\ load = [pending |-> FALSE, value |-> NoSaved]
  /\ gestures = 0

FormationUnchanged ==
  UNCHANGED <<players, fieldDimensions, comp, drag, alert, load, storage, gestures>>

(* A handler of TeamSetupScreen runs while that screen is shown *)
OnSetupScreen == route = "team-setup" /\ setup.open /\ route' = route /\ FormationUnchanged

(* The user starts one more operation on the loaded screen *)
SetupStep == ~setup.isLoading /\ setup.alert = "none" /\ setup.steps < MaxSetupSteps

(* The effect on [players, isLoading]: it runs after a render in which the  *)
(* player array or isLoading is new, and saves when loading is over.  State *)
(* changes of one handler are rendered together.                            *)
SaveEffect(next) ==
  IF next.isLoading THEN next
  ELSE [next EXCEPT !.stored = savePlayers(next.players, next.numberOfPlayers, next.stored)]

(* loadSavedPlayers without its finally block: a failed read leaves the   *)
(* loading view up.                                                         *)
loadSavedPlayersNoFinally ==
  /\ OnSetupScreen
  /\ setup.isLoading
  /\ LET savedData == setup.read
     IN IF savedData.failing
          THEN setup' = [setup EXCEPT !.steps = @ + 1]
          ELSE setup' = SaveEffect([(IF savedData.present
                                       THEN [setup EXCEPT
                                               !.players = savedData.players,
                                               !.numberOfPlayers = savedData.numberOfPlayers]
                                       ELSE setup)
                                    EXCEPT !.isLoading = FALSE])

(* loadSavedPlayers, from the answer of getItem on *)
loadSavedPlayers ==
  /\ OnSetupScreen
  /\ setup.isLoading
  /\ LET savedData == setup.read
         loaded == IF ~savedData.failing /\ savedData.present
                     THEN [setup EXCEPT
                             !.players = savedData.players,
                             !.numberOfPlayers =
                                IF savedData.numberOfPlayers = <<>> THEN <<"1", "1">>
                                ELSE savedData.numberOfPlayers]
                     ELSE setup
     IN setup' = SaveEffect([loaded EXCEPT !.isLoading = FALSE])

(* handleNumberChange without its range check *)
handleNumberChangeUnchecked(text) ==
  /\ OnSetupScreen
  /\ SetupStep
  /\ setup' = [setup EXCEPT !.numberOfPlayers = text, !.steps = @ + 1]

handleNumberChange(text) ==
  /\ OnSetupScreen
  /\ SetupStep
  /\ LET num == OrZero(parseInt(text))
     IN IF num >= 1 /\ num <= 30
          THEN setup' = [setup EXCEPT !.numberOfPlayers = text, !.steps = @ + 1]
          ELSE setup' = [setup EXCEPT !.steps = @ + 1]

(* The size field and the two buttons beside it *)
sizeOnChangeText == \E text \in SizeTexts : handleNumberChange(text)
sizeDecrement == handleNumberChange(toString(parseInt(setup.numberOfPlayers).value - 1))
sizeIncrement == handleNumberChange(toString(parseInt(setup.numberOfPlayers).value + 1))

(* The name field; it is rendered while the squad has room *)
setNewPlayerName ==
  /\ OnSetupScreen
  /\ SetupStep
  /\ LessThan(Len(setup.players), parseInt(setup.numberOfPlayers))
  /\ \E text \in NameTexts :
       /\ text # setup.newPlayerName
       /\ setup' = [setup EXCEPT !.newPlayerName = text, !.steps = @ + 1]

(* addPlayer at clock reading t, which gives the id newId *)
addPlayerWith(t, newId) ==
  /\ OnSetupScreen
  /\ SetupStep
  /\ Len(setup.players) < MaxRoster
  /\ Trim(setup.newPlayerName) # <<>>
  /\ LessThan(Len(setup.players), parseInt(setup.numberOfPlayers))
  /\ LET newPlayer == [id |-> newId, name |-> Trim(setup.newPlayerName), isAvailable |-> TRUE]
     IN setup' = SaveEffect([setup EXCEPT
                               !.players = Append(@, newPlayer),
                               !.newPlayerName = <<>>,
                               !.now = t,
                               !.steps = @ + 1])

(* addPlayer: the id is the clock reading *)
addPlayer ==
  \E t \in setup.now..MaxClock : addPlayerWith(t, <<"t", t>>)

removePlayer(id) ==
  /\ OnSetupScreen
  /\ SetupStep
  /\ setup' = SaveEffect([setup EXCEPT
                            !.players = SelectSeq(@, LAMBDA player : player.id # id),
                            !.steps = @ + 1])

togglePlayerAvailability(id) ==
  /\ OnSetupScreen
  /\ SetupStep
  /\ setup' = SaveEffect([setup EXCEPT
                            !.players =
                               [i \in 1..Len(@) |->
                                  IF @[i].id = id
                                    THEN [@[i] EXCEPT !.isAvailable = ~@]
                                    ELSE @[i]],
                            !.steps = @ + 1])

(* The controls of one row of the squad list *)
rowRemove == \E i \in 1..Len(setup.players) : removePlayer(setup.players[i].id)
rowToggle == \E i \in 1..Len(setup.players) : togglePlayerAvailability(setup.players[i].id)

(* generateDefaultPlayers; its button is rendered while the squad is empty *)
generateDefaultPlayers ==
  /\ OnSetupScreen
  /\ SetupStep
  /\ Len(setup.players) = 0
  /\ LET targetCount == parseInt(setup.numberOfPlayers)
     IN /\ ~targetCount.nan
        /\ targetCount.value <= MaxRoster
        /\ \E t \in setup.now..MaxClock :
             setup' = SaveEffect([setup EXCEPT
                        !.players =
                           [i \in 1..targetCount.value |->
                              [id |-> <<"default", i, t>>, name |-> <<"Player", i>>,
                               isAvailable |-> TRUE]],
                        !.now = t,
                        !.steps = @ + 1])

(* clearAllData asks; the answer removes the stored squad and, when that   *)
(* succeeded, empties the screen.                                           *)
clearAllData ==
  /\ OnSetupScreen
  /\ SetupStep
  /\ setup' = [setup EXCEPT !.alert = "clear", !.steps = @ + 1]

(* The answer of clear-all that empties the screen before the removal has   *)
(* answered                                                                 *)
clearAllOnPressOptimistic ==
  /\ OnSetupScreen
  /\ setup.alert = "clear"
  /\ setup' = SaveEffect([setup EXCEPT
                            !.alert = "none",
                            !.stored = IF @.failing THEN @ ELSE NoSquad,
                            !.players = <<>>,
                            !.numberOfPlayers = <<"1", "1">>])

clearAllOnPress ==
  /\ OnSetupScreen
  /\ setup.alert = "clear"
  /\ IF setup.stored.failing
       THEN setup' = [setup EXCEPT !.alert = "none"]
       ELSE setup' = SaveEffect([setup EXCEPT
                                   !.alert = "none",
                                   !.stored = NoSquad,
                                   !.players = <<>>,
                                   !.numberOfPlayers = <<"1", "1">>])

setupAlertCancel ==
  /\ OnSetupScreen
  /\ setup.alert # "none"
  /\ setup' = [setup EXCEPT !.alert = "none"]

(* The device storage starts or stops failing *)
setupStorageFault ==
  /\ OnSetupScreen
  /\ setup' = [setup EXCEPT !.stored.failing = ~@]

(* The players parameter of the /formation route: absent, the empty text,  *)
(* or a text that JSON.parse rejects (parses = FALSE) or turns into value.  *)
JsonList(items) == [type |-> "array", items |-> items]
JsonOther(type) == [type |-> type, items |-> <<>>]
ParamText(value) == [kind |-> "text", parses |-> TRUE, value |-> value]

(* JSON.stringify of a player list; JSON.parse gives the list back *)
stringify(list) == ParamText(JsonList(list))

(* What a link to /formation can carry instead *)
LinkParams ==
  { [kind |-> "absent", parses |-> FALSE, value |-> JsonOther("undefined")],
    [kind |-> "empty", parses |-> FALSE, value |-> JsonOther("undefined")],
    [kind |-> "text", parses |-> FALSE, value |-> JsonOther("undefined")],
    ParamText(JsonOther("object")),
    ParamText(JsonOther("null")),
    ParamText(JsonOther("number")),
    ParamText(JsonList(<<>>)),
    ParamText(JsonList(<< [id |-> <<"t", 0>>, name |-> <<"Z">>, isAvailable |-> FALSE] >>)) }

(* playersParam || '[]' *)
OrEmptyList(param) ==
  IF param.kind \in {"absent", "empty"} THEN stringify(<<>>) ELSE param

(* JSON.parse(...).map(...) throws on a text that is not JSON and on a      *)
(* value that has no map method.                                            *)
ParseThrows(param) ==
  LET text == OrEmptyList(param) IN ~text.parses \/ text.value.type # "array"

ParsedList(param) == OrEmptyList(param).value.items

(* FormationScreen is rendered for the first time with this parameter.  The *)
(* i-th player of the list is player i of the registry.                     *)
FormationScreen(param) ==
  /\ route = "team-setup"
  /\ UNCHANGED <<setup, storage, gestures>>
  /\ IF ParseThrows(param)
       THEN /\ route' = "error"
            /\ UNCHANGED <<players, fieldDimensions, comp, drag, alert, load>>
       ELSE /\ route' = "formation"
            /\ \E d \in DrawPairs :
                 LET list == ParsedList(param)
                 IN players' = allPlayers([i \in 1..Len(list) |-> list[i].isAvailable],
                                          [i \in 1..Len(list) |-> d])
            /\ fieldDimensions' = Unmeasured
            /\ comp' = [i \in DOMAIN players' |-> Unmounted]
            /\ drag' = NoDrag
            /\ alert' = NoAlert
            /\ load' = [pending |-> TRUE, value |-> storage]

(* A link opens /formation *)
openFormationLink == \E param \in LinkParams : FormationScreen(param)

(* proceedToFormation without its two checks, on a button that is never    *)
(* disabled                                                                 *)
proceedToFormationUnchecked ==
  /\ setup.open
  /\ SetupStep
  /\ FormationScreen(stringify(setup.players))

(* proceedToFormation; its button is disabled while nobody is available *)
proceedToFormation ==
  /\ setup.open
  /\ SetupStep
  /\ Len(setup.players) # 0
  /\ \E i \in 1..Len(setup.players) : setup.players[i].isAvailable
  /\ FormationScreen(stringify(setup.players))

SetupNext ==
  \/ loadSavedPlayers
  \/ sizeOnChangeText
  \/ sizeDecrement
  \/ sizeIncrement
  \/ setNewPlayerName
  \/ addPlayer
  \/ rowRemove
  \/ rowToggle
  \/ generateDefaultPlayers
  \/ clearAllData
  \/ clearAllOnPress
  \/ setupAlertCancel
  \/ proceedToFormation
  \/ openFormationLink

SetupSpec == SetupInit /\ [][SetupNext]_vars

----------------------------------------------------------------------------
(* Sessions on a device whose storage fails from time to time: a formation  *)
(* session, or a visit of the setup screen.                                 *)

(* AsyncStorage starts or stops rejecting the calls of the formation screen *)
formationStorageFault ==
  /\ OnFormationScreen
  /\ storage' = [storage EXCEPT !.failing = ~@]
  /\ UNCHANGED <<players, fieldDimensions, comp, drag, alert, load, gestures>>

FaultFormationInit ==
  /\ route = "formation"
  /\ setup = SetupClosed
  /\ \E d \in DrawPairs : players = allPlayers(<<TRUE, TRUE, FALSE>>, [i \in 1..3 |-> d])
  /\ fieldDimensions = Unmeasured
  /\ comp = [i \in Ids |-> Unmounted]
  /\ drag = NoDrag
  /\ alert = NoAlert
  /\ \E st \in SavedFormations : \E f \in BOOLEAN : storage = [st EXCEPT !.failing = f]
  /\ load = [pending |-> TRUE, value |-> storage]
  /\ gestures = 0

FaultInit == FaultFormationInit \/ SetupInit

FaultNext ==
  \/ onLayout
  \/ loadFormationPositions
  \/ DragGrant
  \/ DragMove
  \/ DragRelease
  \/ arrangeInGAAFormation
  \/ formationStorageFault
  \/ loadSavedPlayers
  \/ sizeOnChangeText
  \/ setNewPlayerName
  \/ addPlayer
  \/ rowRemove
  \/ rowToggle
  \/ generateDefaultPlayers
  \/ setupStorageFault

FaultSpec == FaultInit /\ [][FaultNext]_vars

----------------------------------------------------------------------------
(* The formation screen without a bench (src/unnamed/part_001).  It uses    *)
(* players, fieldDimensions, comp, drag and gestures; of a component        *)
(* playerX, playerY, fieldWidth and fieldHeight are what its PanResponder   *)
(* closed over and panX, panY its currentPosition; of the drag offX, offY   *)
(* are gestureState.dx, gestureState.dy.                                    *)

(* A short pull, one past the top left corner, one past the bottom right *)
BenchlessGestures == {<<10, 20>>, <<-1000, -1000>>, <<1000, 700>>}

(* initialPlayers *)
benchlessInitialPlayers(avail, u) ==
  [i \in DOMAIN avail |->
     [id |-> i, name |-> i, isAvailable |-> avail[i],
      x |-> RandomTimes(u[i][1], 200) + 50, y |-> RandomTimes(u[i][2], 300) + 100]]

BenchlessInit ==
  /\ route = "formation-benchless"
  /\ setup = SetupClosed
  /\ \E u \in [1..2 -> DrawPairs] : players = benchlessInitialPlayers(<<TRUE, FALSE>>, u)
  /\ fieldDimensions = Unmeasured
  /\ comp = [i \in Ids |-> Unmounted]
  /\ drag = NoDrag
  /\ alert = NoAlert
  /\ storage = NoSaved
  /\ load = [pending |-> FALSE, value |-> NoSaved]
  /\ gestures = 0

OnBenchlessScreen ==
  route = "formation-benchless" /\ UNCHANGED <<setup, route, alert, load, storage>>

(* One render: every player gets a component once the pitch is measured; a *)
(* new component closes over the props of this render, a kept one only      *)
(* follows player.x, player.y with its currentPosition.                     *)
benchlessRender(cs, olds, ps, dims) ==
  [i \in DOMAIN ps |->
     IF ~(dims.width > 0 /\ dims.height > 0) THEN Unmounted
     ELSE IF cs[i].mounted
       THEN IF ps[i].x # olds[i].x \/ ps[i].y # olds[i].y
              THEN [cs[i] EXCEPT !.panX = ps[i].x, !.panY = ps[i].y]
              ELSE cs[i]
       ELSE [mounted |-> TRUE, isSubstitute |-> FALSE,
             playerX |-> ps[i].x, playerY |-> ps[i].y,
             fieldWidth |-> dims.width, fieldHeight |-> dims.height,
             panX |-> ps[i].x, panY |-> ps[i].y]]

benchlessOnLayout ==
  /\ OnBenchlessScreen
  /\ drag = NoDrag
  /\ \E dims \in Pitches :
       /\ dims # fieldDimensions
       /\ fieldDimensions' = dims
       /\ comp' = benchlessRender(comp, players, players, dims)
  /\ UNCHANGED <<players, drag, gestures>>

benchlessGrant(i) ==
  /\ OnBenchlessScreen
  /\ drag = NoDrag
  /\ gestures < MaxGestures
  /\ comp[i].mounted
  /\ gestures' = gestures + 1
  /\ drag' = [id |-> i, offX |-> 0, offY |-> 0]
  /\ UNCHANGED <<players, fieldDimensions, comp>>

(* player.x + gestureState.dx, clamped, with the values the responder holds *)
benchlessNewX(i, dx) == Max(0, Min(comp[i].fieldWidth - PLAYER_SIZE, comp[i].playerX + dx))
benchlessNewY(i, dy) == Max(0, Min(comp[i].fieldHeight - PLAYER_SIZE, comp[i].playerY + dy))

benchlessMove(i) ==
  /\ OnBenchlessScreen
  /\ drag.id = i
  /\ drag.offX = 0 /\ drag.offY = 0
  /\ \E g \in BenchlessGestures :
       /\ drag' = [drag EXCEPT !.offX = g[1], !.offY = g[2]]
       /\ comp' = [comp EXCEPT ![i].panX = benchlessNewX(i, g[1]),
                               ![i].panY = benchlessNewY(i, g[2])]
  /\ UNCHANGED <<players, fieldDimensions, gestures>>

(* handlePositionChange of the bench-less screen *)
benchlessPositionChange(ps, id, x, y) ==
  [i \in 1..Len(ps) |-> IF ps[i].id = id THEN [ps[i] EXCEPT !.x = x, !.y = y] ELSE ps[i]]

benchlessRelease(i) ==
  /\ OnBenchlessScreen
  /\ drag.id = i
  /\ LET finalX == benchlessNewX(i, drag.offX)
         finalY == benchlessNewY(i, drag.offY)
         moved == benchlessPositionChange(players, players[i].id, finalX, finalY)
     IN /\ players' = moved
        /\ comp' = benchlessRender([comp EXCEPT ![i].panX = finalX, ![i].panY = finalY],
                                   players, moved, fieldDimensions)
  /\ drag' = NoDrag
  /\ UNCHANGED <<fieldDimensions, gestures>>

BenchlessGrant == \E i \in Ids : benchlessGrant(i)
BenchlessMove == \E i \in Ids : benchlessMove(i)
BenchlessRelease == \E i \in Ids : benchlessRelease(i)

BenchlessNext ==
  \/ benchlessOnLayout
  \/ BenchlessGrant
  \/ BenchlessMove
  \/ BenchlessRelease

BenchlessSpec == BenchlessInit /\ [][BenchlessNext]_vars

----------------------------------------------------------------------------
(* Properties *)

OnFieldIds(ps) == {i \in DOMAIN ps : ps[i].isOnField}
FieldAndAvailableIds(ps) == {ps[i].id : i \in {j \in DOMAIN ps : ps[j].isOnField /\ ps[j].isAvailable}}
OptionIds(options) == {options[k].id : k \in DOMAIN options}

InBounds(p, dims) ==
  /\ 0 <= p.x /\ p.x <= dims.width - PLAYER_SIZE
  /\ 0 <= p.y /\ p.y <= dims.height - PLAYER_SIZE

(* C1: no player is unavailable and on the field, in any reachable state. *)
C1_AvailabilityInvariant ==
  \A i \in Ids : players[i].isOnField => players[i].isAvailable

(* C2: once the pitch is measured, every on-field player lies within        *)
(* [0, width - 60] x [0, height - 60].                                      *)
C2_OnFieldWithinPitch ==
  Measured(fieldDimensions) =>
    \A i \in Ids : players[i].isOnField => InBounds(players[i], fieldDimensions)

(* C3: a field player released at y > fieldHeight - 20 ends on the bench at *)
(* (0,0), whatever the release x.                                           *)
C3_BenchDrop ==
  [][\A i \in Ids :
       ( /\ onPanResponderRelease(i)
         /\ ~comp[i].isSubstitute
         /\ currentY(i) > fieldDimensions.height - 20 )
       => ( /\ ~players'[i].isOnField
            /\ players'[i].x = 0
            /\ players'[i].y = 0 )]_vars

(* C4: a field player released at y <= fieldHeight - 20 stays on the field  *)
(* at its coordinates before the drag plus (dx, dy), clamped to the pitch.  *)
(* Stated for the drags that begin at the registry's coordinates.           *)
C4_FieldRelease ==
  [][\A i \in Ids :
       LET releaseX == players[i].x + comp[i].panX
           releaseY == players[i].y + comp[i].panY
       IN ( /\ onPanResponderRelease(i)
            /\ ~comp[i].isSubstitute
            /\ drag.offX = players[i].x /\ drag.offY = players[i].y
            /\ releaseY <= fieldDimensions.height - 20 )
          => ( /\ players'[i].isOnField
               /\ players'[i].x = Constrain(releaseX, fieldDimensions.width)
               /\ players'[i].y = Constrain(releaseY, fieldDimensions.height) )]_vars

(* C5: a substitute released at 0 <= x <= fieldWidth, 0 <= y < fieldHeight  *)
(* is on the field at the release point clamped to the pitch.               *)
C5_SubstituteDropInside ==
  [][\A i \in Ids :
       ( /\ onPanResponderRelease(i)
         /\ comp[i].isSubstitute
         /\ 0 <= currentX(i) /\ currentX(i) <= fieldDimensions.width
         /\ 0 <= currentY(i) /\ currentY(i) < fieldDimensions.height )
       => ( /\ players'[i].isOnField
            /\ players'[i].x = Constrain(currentX(i), fieldDimensions.width)
            /\ players'[i].y = Constrain(currentY(i), fieldDimensions.height) )]_vars

(* C6: a substitute released outside the measured pitch rectangle (x < 0,   *)
(* x > fieldWidth, y < 0 or y >= fieldHeight) leaves the registry as it was. *)
C6_SubstituteDropOutside ==
  [][\A i \in Ids :
       ( /\ onPanResponderRelease(i)
         /\ comp[i].isSubstitute
         /\ Measured(fieldDimensions)
         /\ \/ currentX(i) < 0
            \/ currentX(i) > fieldDimensions.width
            \/ currentY(i) < 0
            \/ currentY(i) >= fieldDimensions.height )
       => players' = players]_vars

(* C7: when a swap is resolved, as many players are on the field as before  *)
(* the tap, the substitute is on the field and the chosen player is off it. *)
(* "Before the tap" is read in the claim's favour: the count may equal the  *)
(* one when the dialog was opened or the one when the choice is made.       *)
C7_SwapKeepsCount ==
  [][\A k \in DOMAIN alert.options :
       swapChoose(k)
       => ( /\ \/ Cardinality(OnFieldIds(players')) = Cardinality(OnFieldIds(alert.players))
               \/ Cardinality(OnFieldIds(players')) = Cardinality(OnFieldIds(players))
            /\ players'[alert.substituteId].isOnField
            /\ ~players'[alert.options[k].id].isOnField )]_vars

(* C8: when a swap is resolved, the substitute takes the coordinates the    *)
(* chosen field player has in the registry at that moment, the chosen       *)
(* player goes to (0,0) and every other player is unchanged.                *)
C8_SwapCoordinates ==
  [][\A k \in DOMAIN alert.options :
       LET s == alert.substituteId
           f == alert.options[k].id
       IN swapChoose(k)
          => ( /\ players'[s].x = players[f].x
               /\ players'[s].y = players[f].y
               /\ players'[f].x = 0
               /\ players'[f].y = 0
               /\ \A j \in Ids \ {s, f} : players'[j] = players[j] )]_vars

(* C9: a tap on a substitute while a field player exists changes nothing in *)
(* the registry and offers exactly the players on the field and available   *)
(* at that moment, each once; cancelling leaves the registry unchanged.     *)
C9_SwapTargetsOffered ==
  [][ /\ \A i \in Ids :
           ( /\ handlePlayerSwap(i)
             /\ FieldAndAvailableIds(players) # {} )
           => ( /\ alert'.kind = "swap"
                /\ alert'.substituteId = i
                /\ OptionIds(alert'.options) = FieldAndAvailableIds(players)
                /\ Len(alert'.options) = Cardinality(FieldAndAvailableIds(players))
                /\ players' = players )
      /\ alertDismiss => (players' = players /\ alert'.kind = "none") ]_vars

(* A swap dialog is open for a substitute tapped while a player that is on  *)
(* the field but not available existed; the dialog offers the field players *)
(* of that moment and leaves the unavailable one out.                       *)
C9_Witness ==
  /\ alert.kind = "swap"
  /\ alert.options # <<>>
  /\ \E i \in DOMAIN alert.players :
       alert.players[i].isOnField /\ ~alert.players[i].isAvailable
  /\ OptionIds(alert.options) = FieldAndAvailableIds(alert.players)

(* C10 as claimed: a tap on a substitute while exactly one field player      *)
(* exists performs the swap with it at once, with no choice step.            *)
C10_ImplicitSwap ==
  [][\A i \in Ids :
       ( /\ handlePlayerSwap(i)
         /\ Cardinality(FieldAndAvailableIds(players)) = 1 )
       => ( /\ alert'.kind = "none"
            /\ players'[i].isOnField
            /\ \A f \in FieldAndAvailableIds(players) : ~players'[f].isOnField )]_vars

(* C10 as amended: such a tap leaves the registry unchanged and offers that  *)
(* one field player as the only swap target; the swap happens when it is     *)
(* chosen.                                                                   *)
C10_SingleTargetOffered ==
  [][ /\ \A i \in Ids :
           ( /\ handlePlayerSwap(i)
             /\ Cardinality(FieldAndAvailableIds(players)) = 1 )
           => ( /\ players' = players
                /\ alert'.kind = "swap"
                /\ alert'.substituteId = i
                /\ Len(alert'.options) = 1
                /\ OptionIds(alert'.options) = FieldAndAvailableIds(players) )
      /\ \A k \in DOMAIN alert.options :
           (swapChoose(k) /\ Len(alert.options) = 1)
           => ( /\ players'[alert.substituteId].isOnField
                /\ ~players'[alert.options[k].id].isOnField ) ]_vars

(* A swap dialog is open that offers a single field player *)
C10_Witness ==
  /\ alert.kind = "swap"
  /\ Len(alert.options) = 1
  /\ ~players[alert.substituteId].isOnField
  /\ players[alert.options[1].id].isOnField

(* C11: a tap on a substitute while no player is on the field (and the      *)
(* pitch is measured) puts that substitute on the field at once, with no    *)
(* choice step, at coordinates within the pitch, and changes no other       *)
(* player.                                                                  *)
C11_TapToEmptyField ==
  [][\A i \in Ids :
       ( /\ handlePlayerSwap(i)
         /\ Measured(fieldDimensions)
         /\ FieldAndAvailableIds(players) = {} )
       => ( /\ alert'.kind = "none"
            /\ players'[i].isOnField
            /\ InBounds(players'[i], fieldDimensions)
            /\ \A j \in Ids \ {i} : players'[j] = players[j] )]_vars

(* C12 as claimed: on every pitch with width > 0 and height > 0, auto-arrange *)
(* of 1..30 on-field players moves exactly those players, each to           *)
(* 0 <= x <= width - 60 and 0 <= y <= height - 60.                          *)
C12_ArrangeInBoundsAnyPitch ==
  [][( /\ arrangeInGAAFormation
       /\ Measured(fieldDimensions)
       /\ Len(fieldPlayers(players)) \in 1..30 )
     => \A i \in Ids :
          IF IsFieldPlayer(players[i])
            THEN InBounds(players'[i], fieldDimensions)
            ELSE players'[i] = players[i] ]_vars

(* C12 as amended: the same on every pitch that is at least as wide and as   *)
(* high as a player (width >= 60 and height >= 60).                         *)
C12_ArrangeInBounds ==
  [][( /\ arrangeInGAAFormation
       /\ fieldDimensions.width >= PLAYER_SIZE
       /\ fieldDimensions.height >= PLAYER_SIZE
       /\ Len(fieldPlayers(players)) \in 1..30 )
     => \A i \in Ids :
          IF IsFieldPlayer(players[i])
            THEN InBounds(players'[i], fieldDimensions)
            ELSE players'[i] = players[i] ]_vars

(* Thirty players have been arranged on a pitch of exactly a player's size   *)
C12_Witness ==
  /\ gestures >= 1
  /\ fieldDimensions = [width |-> 60, height |-> 60]
  /\ Len(fieldPlayers(players)) = 30
  /\ \A i \in Ids : IsFieldPlayer(players[i]) => players[i].x = 0 /\ players[i].y = 0

(* The 15-slot table as the claim gives it, in twentieths of the width and   *)
(* of the height: slot i + 1 of the sequence is the slot of rank i.         *)
SlotTable ==
  << <<10, 1>>,
     <<5, 3>>, <<10, 3>>, <<15, 3>>,
     <<5, 7>>, <<10, 7>>, <<15, 7>>,
     <<8, 10>>, <<12, 10>>,
     <<5, 13>>, <<10, 13>>, <<15, 13>>,
     <<5, 17>>, <<10, 17>>, <<15, 17>> >>

(* The rank of player i: how many on-field available players precede it     *)
RankOf(ps, i) == Cardinality({j \in 1..(i - 1) : ps[j].isOnField /\ ps[j].isAvailable})

ClampTo(v, dimension) ==
  LET capped == IF v > dimension - 60 THEN dimension - 60 ELSE v
  IN IF capped < 0 THEN 0 ELSE capped

(* C13: with at most 15 on-field players, auto-arrange gives the player of   *)
(* rank i slot i of the table: x = fx(i) * W - 30 and y = fy(i) * H,        *)
(* clamped.                                                                 *)
C13_TableSlots ==
  [][( /\ arrangeInGAAFormation
       /\ Measured(fieldDimensions)
       /\ Len(fieldPlayers(players)) \in 1..15 )
     => \A i \in Ids :
          IsFieldPlayer(players[i])
          => LET slot == SlotTable[RankOf(players, i) + 1]
                 W == fieldDimensions.width
                 H == fieldDimensions.height
             IN /\ players'[i].x = ClampTo((slot[1] * W) \div 20 - 30, W)
                /\ players'[i].y = ClampTo((slot[2] * H) \div 20, H) ]_vars

(* Three on-field players, preceded in the registry by an unavailable one,   *)
(* stand on slots 0, 1 and 2 of a 400 x 800 pitch.                          *)
C13_Witness ==
  /\ gestures >= 1
  /\ fieldDimensions = [width |-> 400, height |-> 800]
  /\ Len(players) = 4
  /\ ~players[1].isAvailable
  /\ players[2].x = 170 /\ players[2].y = 40
  /\ players[3].x = 70 /\ players[3].y = 120
  /\ players[4].x = 170 /\ players[4].y = 120

(* C14 as claimed: with more than 15 on-field players, ranks 0..14 stand on  *)
(* the table slots and every rank i >= 15 on the stack x = 0.5 W,           *)
(* y = 0.7 H + 40 (i - 15), clamped.                                        *)
C14_TableThenStack ==
  [][( /\ arrangeInGAAFormation
       /\ Measured(fieldDimensions)
       /\ Len(fieldPlayers(players)) > 15 )
     => \A i \in Ids :
          IsFieldPlayer(players[i])
          => LET rank == RankOf(players, i)
                 W == fieldDimensions.width
                 H == fieldDimensions.height
             IN IF rank <= 14
                  THEN /\ players'[i].x = ClampTo((SlotTable[rank + 1][1] * W) \div 20 - 30, W)
                       /\ players'[i].y = ClampTo((SlotTable[rank + 1][2] * H) \div 20, H)
                  ELSE /\ players'[i].x = ClampTo(W \div 2, W)
                       /\ players'[i].y = ClampTo((7 * H) \div 10 + 40 * (rank - 15), H) ]_vars

(* The columns and rows of the even distribution of n players: the least    *)
(* cols with cols * cols >= n and the least rows with rows * cols >= n.      *)
GridCols(n) == CHOOSE c \in 1..n : c * c >= n /\ \A b \in 1..(c - 1) : b * b < n
GridRows(n) == CHOOSE r \in 1..n : r * GridCols(n) >= n /\ \A q \in 1..(r - 1) : q * GridCols(n) < n

(* C14 as amended: with more than 15 on-field players every player stands   *)
(* on an even grid: rank i gets x = W / (cols + 1) * (i mod cols + 1) - 30  *)
(* and y = H / (rows + 1) * (i div cols + 1) - 30 (whole pixels), clamped;  *)
(* of 16 players on a 400 x 800 pitch the one of rank 15 ends at (290, 610). *)
C14_EvenDistribution ==
  [][( /\ arrangeInGAAFormation
       /\ Measured(fieldDimensions)
       /\ Len(fieldPlayers(players)) > 15 )
     => LET n == Len(fieldPlayers(players))
            W == fieldDimensions.width
            H == fieldDimensions.height
        IN /\ \A i \in Ids :
                IsFieldPlayer(players[i])
                => LET rank == RankOf(players, i)
                   IN /\ players'[i].x =
                           ClampTo((W * ((rank % GridCols(n)) + 1)) \div (GridCols(n) + 1) - 30, W)
                      /\ players'[i].y =
                           ClampTo((H * ((rank \div GridCols(n)) + 1)) \div (GridRows(n) + 1) - 30, H)
           /\ (n = 16 /\ W = 400 /\ H = 800)
              => \A i \in Ids :
                   (IsFieldPlayer(players[i]) /\ RankOf(players, i) = 15)
                   => players'[i].x = 290 /\ players'[i].y = 610 ]_vars

(* Sixteen on-field players have been arranged on a 400 x 800 pitch          *)
C14_Witness ==
  /\ gestures >= 1
  /\ fieldDimensions = [width |-> 400, height |-> 800]
  /\ Len(fieldPlayers(players)) = 16
  /\ players[17].x = 290 /\ players[17].y = 610
  /\ players[2].x = 50 /\ players[2].y = 130

(* C15: auto-arrange invoked a second time, with the pitch and the set of    *)
(* on-field players as the first call left them, changes nothing: the        *)
(* arrangement of an arranged registry is that registry, and a press on an   *)
(* arranged registry leaves every variable of the registry as it was.        *)
C15_ArrangeIdempotent ==
  [][arrangeInGAAFormation
     => /\ arrangedPlayers(players', fieldDimensions') = players'
        /\ (players = arrangedPlayers(players, fieldDimensions)) => players' = players ]_vars

(* Auto-arrange has been pressed twice on squads of more than 15 field       *)
(* players and the registry is the arranged one.                             *)
C15_Witness ==
  /\ gestures = 2
  /\ Measured(fieldDimensions)
  /\ Len(fieldPlayers(players)) > 15
  /\ players = arrangedPlayers(players, fieldDimensions)

(* C16: auto-arrange changes nothing but the x and y of players that are on  *)
(* the field and available: bench and unavailable players keep their         *)
(* coordinates and no isOnField (or any other) field changes.                *)
C16_ArrangeFrame ==
  [][arrangeInGAAFormation
     => \A i \in Ids :
          /\ players'[i].isOnField = players[i].isOnField
          /\ players'[i].isAvailable = players[i].isAvailable
          /\ players'[i].id = players[i].id
          /\ players'[i].name = players[i].name
          /\ ~(players[i].isOnField /\ players[i].isAvailable)
             => (players'[i].x = players[i].x /\ players'[i].y = players[i].y) ]_vars

(* The one field player of a squad stands on slot 0 of the measured pitch    *)
(* while a substitute sits on the bench and an unavailable player, marked    *)
(* on-field by the loaded snapshot, has kept the coordinates it was loaded   *)
(* with.                                                                     *)
C16_Witness ==
  /\ Measured(fieldDimensions)
  /\ gestures >= 1
  /\ Len(fieldPlayers(players)) = 1
  /\ players = arrangedPlayers(players, fieldDimensions)
  /\ \E i \in Ids : ~players[i].isOnField /\ players[i].isAvailable
  /\ \E i \in Ids :
       /\ players[i].isOnField /\ ~players[i].isAvailable
       /\ players[i].x = 120 /\ players[i].y = 30
  /\ fieldDimensions.width = 400

(* C17: auto-arrange invoked while no player is on the field and available  *)
(* leaves the registry unchanged and raises a notice.                        *)
C17_ArrangeNobody ==
  [][( /\ arrangeInGAAFormation
       /\ FieldAndAvailableIds(players) = {} )
     => ( /\ players' = players
          /\ alert.kind = "none"
          /\ alert'.kind = "notice" )]_vars

(* The notice is up while nobody available is on the field *)
C17_Witness ==
  /\ alert.kind = "notice"
  /\ FieldAndAvailableIds(players) = {}

(* C18: a confirmed reset (on a measured pitch) leaves every on-field player *)
(* within [0, fieldWidth - 60] x [0, fieldHeight - 60], every off-field      *)
(* player at (0,0) and every isOnField flag as it was; cancelling the        *)
(* confirmation leaves the registry unchanged.                               *)
C18_Reset ==
  [][ /\ ( /\ resetOnPress
            /\ Measured(fieldDimensions)
            /\ alert.dims = fieldDimensions
            /\ alert.players = players )
         => \A i \in Ids :
              /\ players'[i].isOnField = players[i].isOnField
              /\ players'[i].isOnField => InBounds(players'[i], fieldDimensions)
              /\ ~players'[i].isOnField => (players'[i].x = 0 /\ players'[i].y = 0)
      /\ (alertDismiss /\ alert.kind = "reset") => players' = players ]_vars

(* C19: while the pitch width or height is not yet positive, auto-arrange,   *)
(* a confirmed reset, a tap on a substitute with no field player and the     *)
(* release of a dragged substitute each leave the registry unchanged.        *)
C19_UnmeasuredNoOp ==
  [][( /\ ~Measured(fieldDimensions)
       /\ \/ arrangeInGAAFormation
          \/ resetOnPress
          \/ \E i \in Ids : handlePlayerSwap(i) /\ FieldAndAvailableIds(players) = {}
          \/ \E i \in Ids : onPanResponderRelease(i) /\ comp[i].isSubstitute )
     => players' = players ]_vars

(* C20: between the grant and the release of a drag no move event changes    *)
(* the registry: the grant and every move leave the coordinates and the      *)
(* isOnField flag of every player as they were.                              *)
C20_MoveIsTransient ==
  [][\A i \in Ids :
       \/ ( /\ players' = players
            /\ storage' = storage
            /\ drag'.id = i )
       \/ ~(onPanResponderGrant(i) \/ onPanResponderMove(i))]_vars

(* A drag is under way and the finger has moved *)
C20_Witness ==
  /\ drag.id # 0
  /\ comp[drag.id].mounted
  /\ comp[drag.id].panX # 0

(* C21: a drag that ends with a terminate leaves the registry unchanged and  *)
(* the player shown at the coordinates the registry held for it before the   *)
(* drag began, whatever moved the player since its component was first       *)
(* rendered.                                                                 *)
C21_TerminateRestores ==
  [][\A i \in Ids :
       onPanResponderTerminate(i)
       => ( /\ players' = players
            /\ comp'[i].panX = players[i].x
            /\ comp'[i].panY = players[i].y )]_vars

(* The snapshot a save of registry ps leaves in storage *)
SnapshotOf(ps) ==
  [i \in 1..Len(ps) |->
     [id |-> ps[i].id, x |-> ps[i].x, y |-> ps[i].y, isOnField |-> ps[i].isOnField]]

(* C22: every operation that changes the registry is followed by a save      *)
(* whose payload holds the id, x, y and isOnField of every player as they    *)
(* are after the operation.                                                  *)
C22_SaveAfterEveryChange ==
  [][players' # players
     => (storage'.present /\ storage'.positions = SnapshotOf(players'))]_vars

(* C24: when the saved formation is loaded, a player whose id matches a      *)
(* saved entry takes that entry's x, y and isOnField, a player with no       *)
(* saved entry keeps its own, saved entries that match no player add         *)
(* nothing, and the number, order, ids, names and availability of the        *)
(* players are unchanged.                                                    *)
C24_LoadMerge ==
  [][( /\ loadFormationPositions
       /\ load.value.present )
     => LET saved == load.value.positions
        IN /\ Len(players') = Len(players)
           /\ \A i \in Ids :
                /\ players'[i].id = players[i].id
                /\ players'[i].name = players[i].name
                /\ players'[i].isAvailable = players[i].isAvailable
                /\ \A k \in DOMAIN saved :
                     saved[k].id = players[i].id
                     => ( /\ players'[i].x = saved[k].x
                          /\ players'[i].y = saved[k].y
                          /\ players'[i].isOnField = saved[k].isOnField )
                /\ (\A k \in DOMAIN saved : saved[k].id # players[i].id)
                   => ( /\ players'[i].x = players[i].x
                        /\ players'[i].y = players[i].y
                        /\ players'[i].isOnField = players[i].isOnField ) ]_vars

(* The saved formation has been merged: player 1 sits on the bench it was    *)
(* saved on, player 3 has the saved coordinates and flag, and player 2, of   *)
(* whom nothing was saved, is where the user dropped it.                     *)
C24_Witness ==
  /\ ~load.pending
  /\ Len(players) = 3
  /\ players[1].x = 0 /\ players[1].y = 0 /\ ~players[1].isOnField
  /\ players[3].x = 120 /\ players[3].y = 30 /\ players[3].isOnField
  /\ players[2].isOnField /\ players[2].x = 0 /\ players[2].y = 0
  /\ gestures = 1

(* C28: at the start of a formation session, before a saved formation is     *)
(* merged and before the user has done anything, every player has            *)
(* isOnField equal to its isAvailable flag.                                  *)
C28_StartOnFieldIffAvailable ==
  (load.pending /\ gestures = 0)
  => \A i \in Ids : players[i].isOnField = players[i].isAvailable

(* A squad of three available players has started with all three on the      *)
(* field, the pitch is measured and nothing has been merged yet.             *)
C28_Witness ==
  /\ load.pending /\ gestures = 0
  /\ Measured(fieldDimensions)
  /\ Len(players) = 3
  /\ \A i \in Ids : players[i].isAvailable /\ players[i].isOnField

(* C25: when a session that has saved its formation ends and a later         *)
(* session starts with the same squad, the merge of what the later session   *)
(* reads gives every player the x, y and isOnField of the earlier session's  *)
(* final registry.                                                           *)
C25_RoundTrip ==
  [][( /\ reopen
       /\ fieldDimensions.width > 0 )
     => /\ load'.value.present
        /\ LET merged == MergeSaved(players', load'.value.positions)
           IN \A i \in Ids :
                /\ merged[i].id = players[i].id
                /\ merged[i].isAvailable = players[i].isAvailable
                /\ merged[i].x = players[i].x
                /\ merged[i].y = players[i].y
                /\ merged[i].isOnField = players[i].isOnField ]_vars

(* A later session is open and its pitch is measured; what it read holds     *)
(* player 2 on the bench, where the earlier session left it, while its own   *)
(* fresh registry has player 2 on the field.                                 *)
C25_Witness ==
  /\ load.pending
  /\ load.value.present
  /\ Measured(fieldDimensions)
  /\ players[2].isOnField
  /\ \E k \in DOMAIN load.value.positions :
       /\ load.value.positions[k].id = 2
       /\ ~load.value.positions[k].isOnField

(* The squad size setting read as a number *)
SquadSize == parseInt(setup.numberOfPlayers)
SizeInRange(text) == ~parseInt(text).nan /\ parseInt(text).value \in 1..30

(* C29: on the team-setup screen the squad size setting is always a number  *)
(* in 1..30, and a size edit to a text whose value lies outside 1..30       *)
(* leaves the setting as it was.                                            *)
C29_SquadSizeInRange ==
  /\ [](setup.open => SizeInRange(setup.numberOfPlayers))
  /\ [][\A text \in SizeTexts :
          (~SizeInRange(text) /\ handleNumberChange(text))
             => setup'.numberOfPlayers = setup.numberOfPlayers]_vars

(* The size stands at 1 after two operations: a decrement was refused or    *)
(* the size was edited twice.                                               *)
C29_Witness ==
  setup.open /\ setup.numberOfPlayers = <<"1">> /\ setup.steps >= 2

(* The stored squad is the one on the screen *)
SquadSaved(st) ==
  /\ st.stored.present
  /\ st.stored.players = st.players
  /\ st.stored.numberOfPlayers = st.numberOfPlayers

(* C23: once the initial load has finished, every operation that changes    *)
(* the player list or the squad size is followed by a save of the current   *)
(* player list and squad size (the storage working).                        *)
C23_SetupSaveAfterEveryChange ==
  [][(/\ setup.open
      /\ ~setup.isLoading
      /\ ~setup.stored.failing
      /\ route' = "team-setup"
      /\ \/ setup'.players # setup.players
         \/ setup'.numberOfPlayers # setup.numberOfPlayers)
     => SquadSaved(setup')]_vars

(* The operations of either screen that the user can start *)
FormationIdle == route = "formation" /\ Idle /\ gestures < MaxGestures
SetupIdle == route = "team-setup" /\ setup.open /\ SetupStep

(* C26: a failing storage read or write never changes the registry and     *)
(* never stops the session.  No error state is reached; a formation load    *)
(* that fails leaves the registry as it was; a squad load that fails leaves *)
(* the squad and the size as they were and ends the loading state; an       *)
(* operation whose save fails has its usual result in memory; and with the  *)
(* storage failing the operations are still accepted.                       *)
C26_StorageFailuresSwallowed ==
  /\ [](route # "error")
  /\ [][(route = "formation" /\ load.pending /\ ~load'.pending /\ load.value.failing)
          => players' = players]_vars
  /\ [][(route = "team-setup" /\ setup.isLoading /\ setup.read.failing /\ setup' # setup
           /\ setup'.stored.failing = setup.stored.failing)
          => /\ ~setup'.isLoading
             /\ setup'.players = setup.players
             /\ setup'.numberOfPlayers = setup.numberOfPlayers]_vars
  /\ [][(storage.failing /\ arrangeInGAAFormation /\ Len(fieldPlayers(players)) > 0)
          => players' = arrangedPlayers(players, fieldDimensions)]_vars
  /\ [][(setup.stored.failing /\ addPlayer)
          => /\ Len(setup'.players) = Len(setup.players) + 1
             /\ setup'.stored = setup.stored]_vars
  /\ [](FormationIdle /\ storage.failing => ENABLED arrangeInGAAFormation)
  /\ [](SetupIdle /\ setup.stored.failing => ENABLED sizeOnChangeText)

(* A squad load has failed although a squad is stored, and the user has     *)
(* since added a player whose save failed too.                              *)
C26_Witness ==
  /\ route = "team-setup"
  /\ setup.read.failing /\ setup.read.present
  /\ ~setup.isLoading
  /\ setup.stored.failing
  /\ Len(setup.players) = 1
  /\ setup.stored.players # setup.players

(* A parameter text that is not JSON, or is JSON for something else than a  *)
(* list                                                                     *)
Unparsable(param) ==
  param.kind = "text" /\ (~param.parses \/ param.value.type # "array")

(* C27: when the player list handed to the formation screen cannot be       *)
(* parsed, or parses to something that is not a list, the formation session *)
(* starts with an empty registry and no error state is reached.             *)
C27_UnparsableListIsEmpty ==
  [][\A param \in LinkParams :
       (Unparsable(param) /\ FormationScreen(param))
          => (route' = "formation" /\ players' = <<>>)]_vars

(* C30: on the team-setup screen no two players of the squad ever have the  *)
(* same id, whatever the sequence of add, generate, remove and clear-all,   *)
(* two adds at the same clock reading included.                             *)
C30_UniqueIds ==
  setup.open =>
    \A i, j \in 1..Len(setup.players) :
       setup.players[i].id = setup.players[j].id => i = j

(* C31: no operation of the formation screen changes the number of players, *)
(* their order, or any player's id, name or isAvailable flag.               *)
C31_IdentityFrame ==
  [][route = "formation" =>
       /\ Len(players') = Len(players)
       /\ \A i \in 1..Len(players) :
            /\ players'[i].id = players[i].id
            /\ players'[i].name = players[i].name
            /\ players'[i].isAvailable = players[i].isAvailable]_vars

(* After the load and two gestures an available player sits on the bench    *)
(* and the registry still lists the players 1, 2, 3 in that order.          *)
C31_Witness ==
  /\ route = "formation"
  /\ ~load.pending
  /\ gestures = 2
  /\ \E i \in Ids : players[i].isAvailable /\ ~players[i].isOnField
  /\ \A i \in Ids : players[i].id = i

(* The cell of the even distribution the player of this rank stands in *)
GridCol(rank, n) == rank % GridCols(n)
GridRow(rank, n) == rank \div GridCols(n)

(* C32: with n > 15 on-field players the even distribution uses             *)
(* cols = ceil(sqrt(n)) and rows = ceil(n / cols), gives rank i the cell     *)
(* (i mod cols, i div cols) with row < rows, no two players the same cell,   *)
(* and puts the top-left corner at x = W / (cols + 1) * (col + 1) - 30,      *)
(* y = H / (rows + 1) * (row + 1) - 30 (whole pixels) before the clamp.      *)
C32_GridCells ==
  [][( /\ arrangeInGAAFormation
       /\ Measured(fieldDimensions)
       /\ Len(fieldPlayers(players)) > 15 )
     => LET n == Len(fieldPlayers(players))
            W == fieldDimensions.width
            H == fieldDimensions.height
            xOf(rank) == (W * (GridCol(rank, n) + 1)) \div (GridCols(n) + 1) - 30
            yOf(rank) == (H * (GridRow(rank, n) + 1)) \div (GridRows(n) + 1) - 30
        IN /\ GridCols(n) * GridCols(n) >= n
           /\ (GridCols(n) - 1) * (GridCols(n) - 1) < n
           /\ \A rank \in 0..(n - 1) :
                /\ GridRow(rank, n) < GridRows(n)
                /\ arrangeX(rank, n, W) = xOf(rank)
                /\ arrangeY(rank, n, H) = yOf(rank)
                /\ \A other \in 0..(n - 1) :
                     (GridCol(other, n) = GridCol(rank, n) /\ GridRow(other, n) = GridRow(rank, n))
                        => other = rank
           /\ \A i \in Ids :
                IsFieldPlayer(players[i])
                => /\ players'[i].x = ClampTo(xOf(RankOf(players, i)), W)
                   /\ players'[i].y = ClampTo(yOf(RankOf(players, i)), H)
           /\ W >= 400 =>
                \A i, j \in Ids :
                   (IsFieldPlayer(players[i]) /\ IsFieldPlayer(players[j]) /\ i # j)
                   => (players'[i].x # players'[j].x \/ players'[i].y # players'[j].y) ]_vars

(* Seventeen on-field players have been arranged on a 400 x 800 pitch: the   *)
(* last one, of rank 16, stands in cell (1, 3) of a 5 x 4 grid.              *)
C32_Witness ==
  /\ gestures >= 1
  /\ fieldDimensions = [width |-> 400, height |-> 800]
  /\ Len(fieldPlayers(players)) = 17
  /\ players[18].x = 103 /\ players[18].y = 610

(* The registry a release of player i gives when the drop is classified and *)
(* clamped against the pitch dims                                           *)
ReleasedAgainst(i, dims) ==
  LET cx == currentX(i)
      cy == currentY(i)
  IN IF comp[i].isSubstitute
       THEN IF cy < dims.height /\ cx >= 0 /\ cx <= dims.width
              THEN handleDragToField(players, i, Constrain(cx, dims.width), Constrain(cy, dims.height))
              ELSE players
       ELSE IF cy > dims.height - 20
              THEN handleDragToSubBench(players, i)
              ELSE handlePositionChange(players, i, Constrain(cx, dims.width), Constrain(cy, dims.height))

(* C33: a drag release is classified and clamped with the pitch width and   *)
(* height that are current at the release, also when the pitch changed      *)
(* after the component was first rendered or when a substitute was first    *)
(* rendered before the pitch was measured.                                  *)
C33_ReleaseUsesCurrentPitch ==
  [][\A i \in Ids :
       onPanResponderRelease(i) => players' = ReleasedAgainst(i, fieldDimensions)]_vars

(* A player as FormationScreen first builds it: on the field iff available, *)
(* at one of the random start positions.  Before the load completes, any    *)
(* other value has been committed by a user action.                         *)
AsBuilt(p) ==
  /\ p.isOnField = p.isAvailable
  /\ \E d \in DrawPairs : p.x = RandomTimes(d[1], 200) + 50 /\ p.y = RandomTimes(d[2], 200) + 50

(* C34: what a user action committed before the load of the saved formation *)
(* completed is still in the registry after the load's merge.               *)
C34_MergeKeepsUserChanges ==
  [][(route = "formation" /\ load.pending /\ ~load'.pending)
     => \A i \in Ids :
          ~AsBuilt(players[i]) =>
             /\ players'[i].x = players[i].x
             /\ players'[i].y = players[i].y
             /\ players'[i].isOnField = players[i].isOnField]_vars

(* What is stored under STORAGE_KEY, whether or not the storage answers *)
StoredData(st) == [st.stored EXCEPT !.failing = FALSE]

(* C35: the team-setup screen issues no save before its initial load has    *)
(* finished, so the squad an earlier visit stored is never replaced by the  *)
(* empty initial player list before it has been read.                       *)
C35_NoSaveBeforeLoad ==
  /\ [][(setup.open /\ setup'.isLoading) => StoredData(setup') = StoredData(setup)]_vars
  /\ [][(setup.open /\ setup.isLoading /\ ~setup'.isLoading /\ setup.stored.present)
          => setup'.stored.players = setup.stored.players]_vars

(* C36: on the team-setup screen the squad never holds more players than    *)
(* the squad size setting allows.                                           *)
C36_RosterWithinSize ==
  setup.open => Len(setup.players) <= SquadSize.value

SomeoneAvailable(list) == \E i \in 1..Len(list) : list[i].isAvailable

(* C37: the team-setup screen hands its player list to the formation screen *)
(* only when the squad holds a player and an available player; otherwise    *)
(* proceeding is refused and nothing is navigated to; so a formation        *)
(* session started from setup begins with its whole squad in the registry   *)
(* and at least one player on the field.                                    *)
C37_ProceedNeedsAvailablePlayer ==
  /\ [][proceedToFormation
          => /\ Len(setup.players) > 0
             /\ SomeoneAvailable(setup.players)
             /\ route' = "formation"
             /\ Len(players') = Len(setup.players)
             /\ \A i \in 1..Len(players') :
                  /\ players'[i].isAvailable = setup.players[i].isAvailable
                  /\ players'[i].isOnField = setup.players[i].isAvailable
             /\ \E i \in 1..Len(players') : players'[i].isOnField]_vars
  /\ []((route = "team-setup" /\ setup.open /\ ~SomeoneAvailable(setup.players))
          => ~ENABLED proceedToFormation)

(* A squad of two, one of them marked unavailable, has been handed over: the *)
(* formation registry holds both, one on the field and one not.              *)
C37_Witness ==
  /\ route = "formation"
  /\ setup.open
  /\ Len(setup.players) = 2
  /\ Len(players) = 2
  /\ \E i, j \in 1..2 : players[i].isOnField /\ ~players[j].isAvailable

(* Every player whose id is not in ids has kept x, y and isOnField *)
OthersUntouched(ids) ==
  \A j \in Ids :
     players[j].id \notin ids =>
        /\ players'[j].x = players[j].x
        /\ players'[j].y = players[j].y
        /\ players'[j].isOnField = players[j].isOnField

(* C38: a drag release (position change, drop on the bench, drop on the     *)
(* field) and a tap on a substitute change only the player they are given;  *)
(* a swap changes only the substitute and the chosen field player.          *)
C38_SinglePlayerFrame ==
  [][players' # players =>
       /\ \A i \in Ids :
            (drag.id = i /\ onPanResponderRelease(i)) => OthersUntouched({players[i].id})
       /\ \A i \in Ids :
            (drag.id = 0 /\ alert.kind = "none" /\ handlePlayerSwap(i))
               => OthersUntouched({players[i].id})
       /\ \A k \in DOMAIN alert.options :
            (alert.kind = "swap" /\ swapChoose(k))
               => OthersUntouched({alert.substituteId, alert.options[k].id})]_vars

(* Substitute 1 has been swapped with field player 2: 1 stands on the field, *)
(* 2 sits on the bench at (0, 0).                                            *)
C38_Witness ==
  /\ ~load.pending
  /\ alert.kind = "none"
  /\ gestures = 1
  /\ players[1].isOnField /\ players[1].x > 0
  /\ players[2].isAvailable /\ ~players[2].isOnField /\ players[2].x = 0 /\ players[2].y = 0

(* C39: a confirmed clear-all whose storage removal succeeds leaves the     *)
(* squad empty and the squad size at 11; a cancelled clear-all, or one      *)
(* whose removal fails, leaves the squad and the squad size as they were.   *)
C39_ClearAll ==
  [][/\ (clearAllOnPress /\ ~setup.stored.failing)
          => (setup'.players = <<>> /\ setup'.numberOfPlayers = <<"1", "1">>)
     /\ (clearAllOnPress /\ setup.stored.failing)
          => (setup'.players = setup.players /\ setup'.numberOfPlayers = setup.numberOfPlayers)
     /\ setupAlertCancel
          => (setup'.players = setup.players /\ setup'.numberOfPlayers = setup.numberOfPlayers)]_vars

(* The squad loaded from storage (one player, size 2) has been cleared *)
C39_Witness ==
  /\ setup.open
  /\ ~setup.isLoading
  /\ setup.read.present /\ ~setup.read.failing
  /\ setup.alert = "none"
  /\ setup.players = <<>>
  /\ setup.numberOfPlayers = <<"1", "1">>

(* C40: on the bench-less formation screen a drag release sets the player's *)
(* coordinates to those the registry held at the start of the drag plus the *)
(* displacement (dx, dy), clamped to [0, fieldWidth - 60] x                  *)
(* [0, fieldHeight - 60]; so a second drag of a player starts from where the *)
(* first one left it.                                                        *)
C40_BenchlessRelease ==
  [][\A i \in Ids :
       benchlessRelease(i)
         => /\ players'[i].x =
                 Max(0, Min(fieldDimensions.width - 60, players[i].x + drag.offX))
            /\ players'[i].y =
                 Max(0, Min(fieldDimensions.height - 60, players[i].y + drag.offY))]_vars

============================================================================
